---------------------------- MODULE Spec2Model ----------------------------
(***************************************************************************)
(* State-machine model of the Namespacelabel operator's reconciliation     *)
(* engine (internal/controller, internal/finalizer, internal/labels).      *)
(*                                                                         *)
(* One namespace (the target) is shared by the Namespacelabel requests of  *)
(* Reqs.  Every client call of Reconcile (Get, Update, Status().Update) is *)
(* one atomic step of the worker that reconciles the request; the steps of *)
(* different requests interleave.  The object store checks the resource    *)
(* version of every Update: a write computed from a snapshot that somebody *)
(* else has changed in the meantime is rejected with a Conflict.           *)
(***************************************************************************)
EXTENDS Integers, FiniteSets, Sequences, TLC

VARIABLES
    protectedEnv,   \* the PROTECTED_LABELS environment variable of the process
    nsExists,       \* the target namespace is in the store
    nsLabels,       \* Namespace.Labels of the target in the store
    nlExists,       \* nlExists[r]: the Namespacelabel r is in the store
    nlSpec,         \* nlSpec[r]: Spec.Labels of r in the store
    nlFinalizer,    \* nlFinalizer[r]: r carries the finalizer in the store
    nlDeleting,     \* nlDeleting[r]: r's DeletionTimestamp is set
    nlForeign,      \* nlForeign[r]: r carries a finalizer of somebody else
    stApplied,      \* stApplied[r]: Status.AppliedLabels of r in the store
    stSkipped,      \* stSkipped[r]: Status.SkippedLabels of r in the store
    stConds,        \* stConds[r]: Status.Conditions of r in the store
    pending,        \* pending[r]: a reconcile request for r is queued
    pc,             \* pc[r]: position of the worker reconciling r
    objSpec,        \* objSpec[r]: Spec.Labels of the worker's copy of r
    objStale,       \* objStale[r]: r changed in the store after the worker's Get
    nsRead,         \* nsRead[r]: Labels of the namespace as the worker read it
    nsSnap,         \* nsSnap[r]: Labels of the worker's copy of the namespace
    nsStale,        \* nsStale[r]: the namespace changed after the worker's Get
    res,            \* res[r]: the three maps returned by processLabels
    events,         \* events[r]: what the running reconcile of r has handed
                    \* to the event recorder
    result,         \* result[r]: what the last Reconcile of r returned ("none"
                    \* before the first return and while a reconcile runs)
    writer,         \* history: writer[k] is who last set key k of the target
    lastDone,       \* history: the request whose reconcile succeeded last, with
                    \* no change by anybody else since ("none" otherwise)
    externals,      \* number of edits of desired labels and of out-of-band
                    \* writes of the target so far
    cluster,        \* the Namespacelabels of all namespaces in the store, by
                    \* name and namespace
    creates,        \* creates[i]: the create request for i that is in flight,
                    \* by the verdict of the admission webhook
    nsEvent,        \* the namespace of the last watch event of a namespace
    worklist,       \* the reconcile requests the controller made of it
    part            \* one call of processLabels on its own: the three maps it
                    \* is given and, once it has run, the three maps it returns

engineVars == << protectedEnv, nsExists, nsLabels, nlExists, nlSpec, nlFinalizer,
           nlDeleting, nlForeign, stApplied, stSkipped, stConds, pending, pc,
           objSpec, objStale, nsRead, nsSnap, nsStale, res, events, result,
           writer, lastDone, externals >>

clusterVars == << cluster, creates, nsEvent, worklist >>

vars == << engineVars, clusterVars, part >>

---------------------------------------------------------------------------
(* Bounds of the model *)

MaxExternal == 1

Reqs == {"r1", "r2"}

\* the namespace of the target, and the namespaces of the cluster
Target == "default"
Namespaces == {"default", "other"}

\* the Namespacelabels somebody may create in the cluster
Items == [name : Reqs, namespace : Namespaces]
Keys == {"a", "b", "p"}

---------------------------------------------------------------------------
(* Go maps from label keys to label values *)

EmptyMap == [k \in {} |-> ""]

\* m[k] of a Go map: the zero value "" when k is not a key of m
Lookup(m, k) == IF k \in DOMAIN m THEN m[k] ELSE ""

\* variant of Merge without the loop: the labels to apply never reach the copy
Merge_Dropped(m, u) == m

\* for key, value := range u { m[key] = value }
Merge(m, u) ==
    [k \in (DOMAIN m) \cup (DOMAIN u) |-> IF k \in DOMAIN u THEN u[k] ELSE m[k]]

Restrict(m, ks) == [k \in (DOMAIN m) \cap ks |-> m[k]]

---------------------------------------------------------------------------
(* The inputs the model draws from *)

DesiredChoices(r) ==
    IF r = "r1"
    THEN { ("a" :> "1"), ("a" :> "3"), ("a" :> "1") @@ ("p" :> "1") }
    ELSE { ("b" :> "2"), ("a" :> "2") @@ ("b" :> "2") }

\* the starting points: the protected set, the labels the target already has,
\* and the desired labels of the two requests
Scenarios ==
    { [ protected |-> ("p" :> "x"), labels |-> EmptyMap,
        r1 |-> ("a" :> "1"), r2 |-> ("b" :> "2") ],
      [ protected |-> ("p" :> "x"), labels |-> ("p" :> "x"),
        r1 |-> ("a" :> "1") @@ ("p" :> "1"), r2 |-> ("a" :> "2") @@ ("b" :> "2") ],
      [ protected |-> ("p" :> ""), labels |-> ("a" :> ""),
        r1 |-> ("a" :> "1") @@ ("p" :> "1"), r2 |-> ("b" :> "2") ] }

\* what an out-of-band writer sets on the target
ExternalSets == { << "b", "9" >> }

Env(m) == [kind |-> "json", labels |-> m]

---------------------------------------------------------------------------
(* internal/labels *)

\* LoadProtected: os.Getenv, then json.Unmarshal into a map.  An unset (empty)
\* variable is an error; a parse failure is logged and the map decoded so far
\* is returned with a nil error.
LoadProtected(env) ==
    IF env.kind = "unset"
    THEN [err |-> TRUE, labels |-> EmptyMap]
    ELSE [err |-> FALSE, labels |-> env.labels]

\* variant of Cleanup with the test inverted: it keeps the keys to remove only
Cleanup_Inverted(labels, labelsToRemove) ==
    [k \in (DOMAIN labels) \cap (DOMAIN labelsToRemove) |-> labels[k]]

\* variant of Cleanup that removes nothing
Cleanup_Kept(labels, specLabels) == labels

\* Cleanup: for key := range labelsToRemove { delete(namespace.Labels, key) }
Cleanup(labels, labelsToRemove) ==
    Restrict(labels, (DOMAIN labels) \ (DOMAIN labelsToRemove))

---------------------------------------------------------------------------
(* internal/controller: processLabels, setCondition, updateStatus *)

\* the switch of processLabels: protectedLabels[key] != "" comes first,
\* namespace.Labels[key] != "" second, the default case applies the label
IsProtectedCase(protectedLabels, key) == Lookup(protectedLabels, key) /= ""

IsDuplicateCase(labels, key) == Lookup(labels, key) /= ""

\* variant of processLabels whose duplicate case does not come second: a key
\* of the protected case that is on the target lands in both skip maps
processLabels_Overlap(labels, specLabels, protectedLabels) ==
    LET prot == {k \in DOMAIN specLabels : IsProtectedCase(protectedLabels, k)}
        dup  == {k \in DOMAIN specLabels : IsDuplicateCase(labels, k)}
    IN  [ updated   |-> Restrict(specLabels, ((DOMAIN specLabels) \ prot) \ dup),
          skipped   |-> Restrict(specLabels, prot),
          duplicate |-> Restrict(specLabels, dup) ]

processLabels(labels, specLabels, protectedLabels) ==
    LET prot == {k \in DOMAIN specLabels : IsProtectedCase(protectedLabels, k)}
        dup  == {k \in (DOMAIN specLabels) \ prot : IsDuplicateCase(labels, k)}
    IN  [ updated   |-> Restrict(specLabels, ((DOMAIN specLabels) \ prot) \ dup),
          skipped   |-> Restrict(specLabels, prot),
          duplicate |-> Restrict(specLabels, dup) ]

\* r.Recorder.Event(namespaceLabel, type, reason, message)
Event(type, reason, key, value) ==
    [type |-> type, reason |-> reason, key |-> key, value |-> value]

\* the events of the loop of processLabels: one Warning in each of the two
\* skipping cases, with the pair key=value in the message, none in the default
processLabelsEvents(labels, specLabels, protectedLabels) ==
    LET prot == {k \in DOMAIN specLabels : IsProtectedCase(protectedLabels, k)}
        dup  == {k \in (DOMAIN specLabels) \ prot : IsDuplicateCase(labels, k)}
    IN  { Event("Warning", "ProtectedLabelSkipped", k, specLabels[k]) : k \in prot }
        \cup
        { Event("Warning", "DuplicateLabelSkipped", k, specLabels[k]) : k \in dup }

NoRes == [updated |-> EmptyMap, skipped |-> EmptyMap, duplicate |-> EmptyMap]

\* variant of setCondition that always appends the record
setCondition_Append(conds, type, status) ==
    Append(conds, [type |-> type, status |-> status])

\* meta.SetStatusCondition: overwrite the record of that type in place, or append
setCondition(conds, type, status) ==
    IF \E i \in 1..Len(conds) : conds[i].type = type
    THEN [i \in 1..Len(conds) |->
             IF conds[i].type = type THEN [type |-> type, status |-> status]
                                     ELSE conds[i]]
    ELSE Append(conds, [type |-> type, status |-> status])

Bool(b) == IF b THEN "True" ELSE "False"

\* variant of NewStatus that derives DuplicateLabels from the skipped map
NewStatus_OneFlag(conds, r3) ==
    [ applied |-> r3.updated,
      skipped |-> r3.skipped,
      conds   |-> setCondition(
                    setCondition(
                      setCondition(conds, "LabelsSkipped",
                                   Bool(DOMAIN r3.skipped /= {})),
                      "DuplicateLabels", Bool(DOMAIN r3.skipped /= {})),
                    "LabelsApplied", "True") ]

\* variant of NewStatus that reports the duplicate labels as applied
NewStatus_WithDuplicates(conds, r3) ==
    [ applied |-> Merge(r3.duplicate, r3.updated),
      skipped |-> r3.skipped,
      conds   |-> setCondition(
                    setCondition(
                      setCondition(conds, "LabelsSkipped",
                                   Bool(DOMAIN r3.skipped /= {})),
                      "DuplicateLabels", Bool(DOMAIN r3.duplicate /= {})),
                    "LabelsApplied", "True") ]

\* the status updateStatus computes before it calls Status().Update
NewStatus(conds, r3) ==
    [ applied |-> r3.updated,
      skipped |-> r3.skipped,
      conds   |-> setCondition(
                    setCondition(
                      setCondition(conds, "LabelsSkipped",
                                   Bool(DOMAIN r3.skipped /= {})),
                      "DuplicateLabels", Bool(DOMAIN r3.duplicate /= {})),
                    "LabelsApplied", "True") ]

---------------------------------------------------------------------------
(* The object store and the watch events of SetupWithManager *)

HoldsNs(q) == pc[q] \in {"update", "cleanupUpdate"}

\* r.List with ListOptions{Namespace: ns} or client.InNamespace(ns)
List(items, ns) == {i \in items : i.namespace = ns}

\* variant of enqueueRequestsFromNamespace that lists every namespace
enqueueRequestsFromNamespace_Unfiltered(items, ns) ==
    {[name |-> i.name, namespace |-> i.namespace] : i \in items}

\* enqueueRequestsFromNamespace: one request, by name and namespace, for every
\* Namespacelabel that r.List finds in the namespace of the event
enqueueRequestsFromNamespace(items, ns) ==
    {[name |-> i.name, namespace |-> i.namespace] : i \in List(items, ns)}

\* the requests of the target as objects of the store
Stored(exists) == {[name |-> q, namespace |-> Target] : q \in {x \in Reqs : exists[x]}}

\* the reconcile requests a watch event of the target is mapped to
TargetRequests(exists) ==
    {i.name : i \in enqueueRequestsFromNamespace(Stored(exists), Target)}

\* who set each key of the target last: the keys `by` changed or added are its
\* own, the keys that are gone have no writer
WriterAfter(by, new) ==
    [k \in Keys |->
        IF k \notin DOMAIN new THEN "none"
        ELSE IF k \in DOMAIN nsLabels /\ nsLabels[k] = new[k] THEN writer[k]
        ELSE by]

\* The store accepts a namespace update: a write that changes nothing leaves the
\* resource version alone and raises no event; any other write makes every other
\* copy of the namespace stale and queues every request of the namespace.
NsStored(by, new) ==
    /\ nsLabels' = new
    /\ writer' = WriterAfter(by, new)
    /\ nsStale' = [q \in Reqs |->
                     IF q = by THEN FALSE
                     ELSE nsStale[q] \/ (new /= nsLabels /\ HoldsNs(q))]
    /\ lastDone' = IF new /= nsLabels /\ lastDone /= by THEN "none" ELSE lastDone

\* variant of NsEvents without the watch of the namespace
NsEvents_Unwatched(new, exists) == {}

NsEvents(new, exists) ==
    IF new /= nsLabels THEN TargetRequests(exists) ELSE {}

\* the reconcile of r returns and its worker drops its copies
Return(r) ==
    /\ pc' = [pc EXCEPT ![r] = "idle"]
    /\ objSpec' = [objSpec EXCEPT ![r] = EmptyMap]
    /\ objStale' = [objStale EXCEPT ![r] = FALSE]
    /\ nsRead' = [nsRead EXCEPT ![r] = EmptyMap]
    /\ nsSnap' = [nsSnap EXCEPT ![r] = EmptyMap]
    /\ res' = [res EXCEPT ![r] = NoRes]
    /\ events' = [events EXCEPT ![r] = {}]

\* what Reconcile hands back to the work queue: "ok" for a nil error, "error"
\* otherwise, and "none" as long as the reconcile is running
Returned(r, what) == result' = [result EXCEPT ![r] = what]

\* a failed reconcile of r, or a change of r by the user, ends r's run of
\* undisturbed successful reconciles
Failed(r) == IF lastDone = r THEN "none" ELSE lastDone

\* variant of StatusWriteResult without the NotFound case
StatusWriteResult_Strict(exists, stale) ==
    IF exists /\ ~stale THEN "ok" ELSE "error"

\* the end of updateStatus: a NotFound of Status().Update is a success, any
\* other failure is returned as an error
StatusWriteResult(exists, stale) ==
    IF ~exists THEN "ok" ELSE IF stale THEN "error" ELSE "ok"

---------------------------------------------------------------------------
(* Reconcile, one client call per step *)

\* variant of Get that hands the NotFound of r.Get back as an error
Get_NotFoundError(r) ==
    /\ pc[r] = "idle"
    /\ pending[r]
    /\ pending' = [pending EXCEPT ![r] = FALSE]
    /\ IF nlExists[r]
       THEN /\ pc' = [pc EXCEPT ![r] =
                        IF nlDeleting[r] THEN "cleanup"
                        ELSE IF nlFinalizer[r] THEN "fetch" ELSE "ensure"]
            /\ objSpec' = [objSpec EXCEPT ![r] = nlSpec[r]]
            /\ Returned(r, "none")
       ELSE /\ Returned(r, "error")
            /\ UNCHANGED << pc, objSpec >>
    /\ UNCHANGED << protectedEnv, nsExists, nsLabels, nlExists, nlSpec,
                    nlFinalizer, nlDeleting, nlForeign, stApplied, stSkipped,
                    stConds, objStale, nsRead, nsSnap, nsStale, res, events, writer,
                    lastDone, externals, clusterVars, part >>

\* variant of Get that does not look at the deletion timestamp
Get_Undeleted(r) ==
    /\ pc[r] = "idle"
    /\ pending[r]
    /\ pending' = [pending EXCEPT ![r] = FALSE]
    /\ IF nlExists[r]
       THEN /\ pc' = [pc EXCEPT ![r] = IF nlFinalizer[r] THEN "fetch" ELSE "ensure"]
            /\ objSpec' = [objSpec EXCEPT ![r] = nlSpec[r]]
            /\ Returned(r, "none")
       ELSE /\ Returned(r, "ok")
            /\ UNCHANGED << pc, objSpec >>
    /\ UNCHANGED << protectedEnv, nsExists, nsLabels, nlExists, nlSpec,
                    nlFinalizer, nlDeleting, nlForeign, stApplied, stSkipped,
                    stConds, objStale, nsRead, nsSnap, nsStale, res, events, writer,
                    lastDone, externals, clusterVars, part >>

\* r.Get of the Namespacelabel; a request that is gone is a no-op success.
\* finalizer.Ensure is a local no-op when the finalizer is already there.
Get(r) ==
    /\ pc[r] = "idle"
    /\ pending[r]
    /\ pending' = [pending EXCEPT ![r] = FALSE]
    /\ IF nlExists[r]
       THEN /\ pc' = [pc EXCEPT ![r] =
                        IF nlDeleting[r] THEN "cleanup"
                        ELSE IF nlFinalizer[r] THEN "fetch" ELSE "ensure"]
            /\ objSpec' = [objSpec EXCEPT ![r] = nlSpec[r]]
            /\ Returned(r, "none")
       ELSE /\ Returned(r, "ok")
            /\ UNCHANGED << pc, objSpec >>
    /\ UNCHANGED << protectedEnv, nsExists, nsLabels, nlExists, nlSpec,
                    nlFinalizer, nlDeleting, nlForeign, stApplied, stSkipped,
                    stConds, objStale, nsRead, nsSnap, nsStale, res, events, writer,
                    lastDone, externals, clusterVars, part >>

\* variant of ensureFinalizer that drops the error of finalizer.Ensure
ensureFinalizer_Unchecked(r) ==
    /\ pc[r] = "ensure"
    /\ nlFinalizer' = [nlFinalizer EXCEPT ![r] = @ \/ (nlExists[r] /\ ~objStale[r])]
    /\ pending' = [pending EXCEPT ![r] = TRUE]
    /\ pc' = [pc EXCEPT ![r] = "fetch"]
    /\ UNCHANGED << protectedEnv, nsExists, nsLabels, nlExists, nlSpec,
                    nlDeleting, nlForeign, stApplied, stSkipped, stConds,
                    objSpec, objStale, nsRead, nsSnap, nsStale, res, events, result,
                    writer, lastDone, externals, clusterVars, part >>

\* finalizer.Ensure: AddFinalizer and c.Update of the Namespacelabel
ensureFinalizer(r) ==
    /\ pc[r] = "ensure"
    /\ IF nlExists[r] /\ ~objStale[r]
       THEN /\ nlFinalizer' = [nlFinalizer EXCEPT ![r] = TRUE]
            /\ pending' = [pending EXCEPT ![r] = TRUE]
            /\ pc' = [pc EXCEPT ![r] = "fetch"]
            /\ UNCHANGED << objSpec, objStale, nsRead, nsSnap, res, events, result,
                            lastDone >>
       ELSE /\ Return(r)
            /\ Returned(r, "error")
            /\ pending' = [pending EXCEPT ![r] = TRUE]
            /\ lastDone' = Failed(r)
            /\ UNCHANGED nlFinalizer
    /\ UNCHANGED << protectedEnv, nsExists, nsLabels, nlExists, nlSpec,
                    nlDeleting, nlForeign, stApplied, stSkipped, stConds,
                    nsStale, writer, externals, clusterVars, part >>

\* labels.LoadProtected, fetchNamespace, processLabels and the merge of the
\* labels to apply into the worker's copy of the namespace
fetchNamespace(r) ==
    /\ pc[r] = "fetch"
    /\ LET loaded == LoadProtected(protectedEnv)
           r3 == processLabels(nsLabels, objSpec[r], loaded.labels)
       IN  IF loaded.err \/ ~nsExists
           THEN /\ Return(r)
                /\ Returned(r, "error")
                /\ pending' = [pending EXCEPT ![r] = TRUE]
                /\ lastDone' = Failed(r)
                /\ UNCHANGED nsStale
           ELSE /\ res' = [res EXCEPT ![r] = r3]
                /\ events' = [events EXCEPT ![r] =
                                processLabelsEvents(nsLabels, objSpec[r],
                                                    loaded.labels)]
                /\ nsRead' = [nsRead EXCEPT ![r] = nsLabels]
                /\ nsSnap' = [nsSnap EXCEPT ![r] = Merge(nsLabels, r3.updated)]
                /\ nsStale' = [nsStale EXCEPT ![r] = FALSE]
                /\ pc' = [pc EXCEPT ![r] = "update"]
                /\ UNCHANGED << pending, objSpec, objStale, result, lastDone >>
    /\ UNCHANGED << protectedEnv, nsExists, nsLabels, nlExists, nlSpec,
                    nlFinalizer, nlDeleting, nlForeign, stApplied, stSkipped,
                    stConds, writer, externals, clusterVars, part >>

\* variant of updateNamespace that drops the error of r.Update
updateNamespace_Unchecked(r) ==
    /\ pc[r] = "update"
    /\ pc' = [pc EXCEPT ![r] = "status"]
    /\ IF nsExists /\ ~nsStale[r]
       THEN /\ NsStored(r, nsSnap[r])
            /\ pending' = [q \in Reqs |->
                             pending[q] \/ q \in NsEvents(nsSnap[r], nlExists)]
       ELSE /\ nsStale' = [nsStale EXCEPT ![r] = FALSE]
            /\ UNCHANGED << nsLabels, writer, lastDone, pending >>
    /\ UNCHANGED << protectedEnv, nsExists, nlExists, nlSpec, nlFinalizer,
                    nlDeleting, nlForeign, stApplied, stSkipped, stConds,
                    objSpec, objStale, nsRead, nsSnap, res, events, result,
                    externals, clusterVars, part >>

\* updateNamespace: r.Update of the namespace, refused when the copy is stale
\* or the namespace is gone
updateNamespace(r) ==
    /\ pc[r] = "update"
    /\ IF nsExists /\ ~nsStale[r]
       THEN /\ NsStored(r, nsSnap[r])
            /\ pending' = [q \in Reqs |->
                             pending[q] \/ q \in NsEvents(nsSnap[r], nlExists)]
            /\ pc' = [pc EXCEPT ![r] = "status"]
            /\ UNCHANGED << objSpec, objStale, nsRead, nsSnap, res, events, result >>
       ELSE /\ Return(r)
            /\ Returned(r, "error")
            /\ pending' = [pending EXCEPT ![r] = TRUE]
            /\ nsStale' = [nsStale EXCEPT ![r] = FALSE]
            /\ lastDone' = Failed(r)
            /\ UNCHANGED << nsLabels, writer >>
    /\ UNCHANGED << protectedEnv, nsExists, nlExists, nlSpec, nlFinalizer,
                    nlDeleting, nlForeign, stApplied, stSkipped, stConds,
                    externals, clusterVars, part >>

\* updateStatus: AppliedLabels, SkippedLabels, the three conditions, then
\* Status().Update; NotFound is a success, any other failure an error
updateStatus(r) ==
    /\ pc[r] = "status"
    /\ Return(r)
    /\ Returned(r, StatusWriteResult(nlExists[r], objStale[r]))
    /\ LET new == NewStatus(stConds[r], res[r])
           changed == \/ new.applied /= stApplied[r]
                      \/ new.skipped /= stSkipped[r]
                      \/ new.conds /= stConds[r]
       IN  IF ~nlExists[r]
           THEN /\ lastDone' = Failed(r)
                /\ UNCHANGED << stApplied, stSkipped, stConds, pending >>
           ELSE IF objStale[r]
           THEN /\ pending' = [pending EXCEPT ![r] = TRUE]
                /\ lastDone' = Failed(r)
                /\ UNCHANGED << stApplied, stSkipped, stConds >>
           ELSE /\ stApplied' = [stApplied EXCEPT ![r] = new.applied]
                /\ stSkipped' = [stSkipped EXCEPT ![r] = new.skipped]
                /\ stConds' = [stConds EXCEPT ![r] = new.conds]
                /\ pending' = [pending EXCEPT ![r] = @ \/ changed]
                /\ lastDone' = r
    /\ UNCHANGED << protectedEnv, nsExists, nsLabels, nlExists, nlSpec,
                    nlFinalizer, nlDeleting, nlForeign, nsStale, writer,
                    externals, clusterVars, part >>

---------------------------------------------------------------------------
(* Reconcile of a request marked for deletion: finalizer.Cleanup *)

\* c.Get of the namespace and labels.Cleanup on the worker's copy; a namespace
\* that is gone is an error
cleanupFetch(r) ==
    /\ pc[r] = "cleanup"
    /\ IF nsExists
       THEN /\ nsRead' = [nsRead EXCEPT ![r] = nsLabels]
            /\ nsSnap' = [nsSnap EXCEPT ![r] = Cleanup(nsLabels, objSpec[r])]
            /\ nsStale' = [nsStale EXCEPT ![r] = FALSE]
            /\ pc' = [pc EXCEPT ![r] = "cleanupUpdate"]
            /\ UNCHANGED << pending, objSpec, objStale, res, events, result, lastDone >>
       ELSE /\ Return(r)
            /\ Returned(r, "error")
            /\ pending' = [pending EXCEPT ![r] = TRUE]
            /\ lastDone' = Failed(r)
            /\ UNCHANGED nsStale
    /\ UNCHANGED << protectedEnv, nsExists, nsLabels, nlExists, nlSpec,
                    nlFinalizer, nlDeleting, nlForeign, stApplied, stSkipped,
                    stConds, writer, externals, clusterVars, part >>

\* variant of cleanupUpdate whose c.Update is accepted whatever the resource
\* version of the copy
cleanupUpdate_Blind(r) ==
    /\ pc[r] = "cleanupUpdate"
    /\ IF nsExists
       THEN /\ NsStored(r, nsSnap[r])
            /\ pending' = [q \in Reqs |->
                             pending[q] \/ q \in NsEvents(nsSnap[r], nlExists)]
            /\ pc' = [pc EXCEPT ![r] = "removeFinalizer"]
            /\ UNCHANGED << objSpec, objStale, nsRead, nsSnap, res, events, result >>
       ELSE /\ Return(r)
            /\ Returned(r, "error")
            /\ pending' = [pending EXCEPT ![r] = TRUE]
            /\ nsStale' = [nsStale EXCEPT ![r] = FALSE]
            /\ lastDone' = Failed(r)
            /\ UNCHANGED << nsLabels, writer >>
    /\ UNCHANGED << protectedEnv, nsExists, nlExists, nlSpec, nlFinalizer,
                    nlDeleting, nlForeign, stApplied, stSkipped, stConds,
                    externals, clusterVars, part >>

\* variant of cleanupUpdate that drops the error of c.Update
cleanupUpdate_Unchecked(r) ==
    /\ pc[r] = "cleanupUpdate"
    /\ pc' = [pc EXCEPT ![r] = "removeFinalizer"]
    /\ IF nsExists /\ ~nsStale[r]
       THEN /\ NsStored(r, nsSnap[r])
            /\ pending' = [q \in Reqs |->
                             pending[q] \/ q \in NsEvents(nsSnap[r], nlExists)]
       ELSE /\ nsStale' = [nsStale EXCEPT ![r] = FALSE]
            /\ UNCHANGED << nsLabels, writer, lastDone, pending >>
    /\ UNCHANGED << protectedEnv, nsExists, nlExists, nlSpec, nlFinalizer,
                    nlDeleting, nlForeign, stApplied, stSkipped, stConds,
                    objSpec, objStale, nsRead, nsSnap, res, events, result,
                    externals, clusterVars, part >>

\* c.Update of the namespace after the cleanup
cleanupUpdate(r) ==
    /\ pc[r] = "cleanupUpdate"
    /\ IF nsExists /\ ~nsStale[r]
       THEN /\ NsStored(r, nsSnap[r])
            /\ pending' = [q \in Reqs |->
                             pending[q] \/ q \in NsEvents(nsSnap[r], nlExists)]
            /\ pc' = [pc EXCEPT ![r] = "removeFinalizer"]
            /\ UNCHANGED << objSpec, objStale, nsRead, nsSnap, res, events, result >>
       ELSE /\ Return(r)
            /\ Returned(r, "error")
            /\ pending' = [pending EXCEPT ![r] = TRUE]
            /\ nsStale' = [nsStale EXCEPT ![r] = FALSE]
            /\ lastDone' = Failed(r)
            /\ UNCHANGED << nsLabels, writer >>
    /\ UNCHANGED << protectedEnv, nsExists, nlExists, nlSpec, nlFinalizer,
                    nlDeleting, nlForeign, stApplied, stSkipped, stConds,
                    externals, clusterVars, part >>

\* variant of removeFinalizer that returns without the update of the request
removeFinalizer_Kept(r) ==
    /\ pc[r] = "removeFinalizer"
    /\ Return(r)
    /\ Returned(r, "ok")
    /\ lastDone' = Failed(r)
    /\ UNCHANGED << protectedEnv, nsExists, nsLabels, nlExists, nlSpec,
                    nlFinalizer, nlDeleting, nlForeign, stApplied, stSkipped,
                    stConds, pending, nsStale, writer, externals, clusterVars,
                    part >>

\* RemoveFinalizer and c.Update of the Namespacelabel.  The store removes a
\* request that has a deletion timestamp and no finalizer left; an update that
\* changes nothing raises no event.
removeFinalizer(r) ==
    /\ pc[r] = "removeFinalizer"
    /\ Return(r)
    /\ lastDone' = Failed(r)
    /\ IF nlExists[r] /\ ~objStale[r]
       THEN /\ Returned(r, "ok")
            /\ nlFinalizer' = [nlFinalizer EXCEPT ![r] = FALSE]
            /\ IF nlForeign[r]
               THEN /\ pending' = [pending EXCEPT ![r] = @ \/ nlFinalizer[r]]
                    /\ UNCHANGED << nlExists, nlDeleting, nlSpec, stApplied,
                                    stSkipped, stConds >>
               ELSE /\ pending' = [pending EXCEPT ![r] = TRUE]
                    /\ nlExists' = [nlExists EXCEPT ![r] = FALSE]
                    /\ nlDeleting' = [nlDeleting EXCEPT ![r] = FALSE]
                    /\ nlSpec' = [nlSpec EXCEPT ![r] = EmptyMap]
                    /\ stApplied' = [stApplied EXCEPT ![r] = EmptyMap]
                    /\ stSkipped' = [stSkipped EXCEPT ![r] = EmptyMap]
                    /\ stConds' = [stConds EXCEPT ![r] = << >>]
       ELSE /\ Returned(r, "error")
            /\ pending' = [pending EXCEPT ![r] = TRUE]
            /\ UNCHANGED << nlExists, nlFinalizer, nlDeleting, nlSpec, stApplied,
                            stSkipped, stConds >>
    /\ UNCHANGED << protectedEnv, nsExists, nsLabels, nlForeign, nsStale,
                    writer, externals, clusterVars, part >>

---------------------------------------------------------------------------
(* The external actors *)

\* the user changes the desired labels of a request
EditSpec(r, d) ==
    /\ nlExists[r]
    /\ externals < MaxExternal
    /\ d /= nlSpec[r]
    /\ nlSpec' = [nlSpec EXCEPT ![r] = d]
    /\ externals' = externals + 1
    /\ UNCHANGED << clusterVars, part >>
    /\ pending' = [pending EXCEPT ![r] = TRUE]
    /\ objStale' = [objStale EXCEPT ![r] = pc[r] /= "idle"]
    /\ lastDone' = Failed(r)
    /\ UNCHANGED << protectedEnv, nsExists, nsLabels, nlExists, nlFinalizer,
                    nlDeleting, nlForeign, stApplied, stSkipped, stConds, pc,
                    objSpec, nsRead, nsSnap, nsStale, res, events, result, writer >>

\* the store drops r
Removed(r) ==
    /\ nlExists' = [nlExists EXCEPT ![r] = FALSE]
    /\ nlDeleting' = [nlDeleting EXCEPT ![r] = FALSE]
    /\ nlSpec' = [nlSpec EXCEPT ![r] = EmptyMap]
    /\ stApplied' = [stApplied EXCEPT ![r] = EmptyMap]
    /\ stSkipped' = [stSkipped EXCEPT ![r] = EmptyMap]
    /\ stConds' = [stConds EXCEPT ![r] = << >>]

\* the user deletes a request: the store sets the deletion timestamp when the
\* request carries a finalizer and removes the request otherwise
DeleteRequest(r) ==
    /\ nlExists[r]
    /\ ~nlDeleting[r]
    /\ IF nlFinalizer[r] \/ nlForeign[r]
       THEN /\ nlDeleting' = [nlDeleting EXCEPT ![r] = TRUE]
            /\ UNCHANGED << nlExists, nlSpec, stApplied, stSkipped, stConds >>
       ELSE Removed(r)
    /\ pending' = [pending EXCEPT ![r] = TRUE]
    /\ objStale' = [objStale EXCEPT ![r] = pc[r] /= "idle"]
    /\ lastDone' = Failed(r)
    /\ UNCHANGED << protectedEnv, nsExists, nsLabels, nlFinalizer, nlForeign,
                    pc, objSpec, nsRead, nsSnap, nsStale, res, events, result, writer,
                    externals, clusterVars, part >>

\* somebody strips every finalizer of a request; the store then removes the
\* request if it is marked for deletion
StripFinalizers(r) ==
    /\ nlExists[r]
    /\ nlFinalizer[r] \/ nlForeign[r]
    /\ externals < MaxExternal
    /\ externals' = externals + 1
    /\ UNCHANGED << clusterVars, part >>
    /\ nlFinalizer' = [nlFinalizer EXCEPT ![r] = FALSE]
    /\ nlForeign' = [nlForeign EXCEPT ![r] = FALSE]
    /\ IF nlDeleting[r]
       THEN Removed(r)
       ELSE UNCHANGED << nlExists, nlDeleting, nlSpec, stApplied, stSkipped,
                         stConds >>
    /\ pending' = [pending EXCEPT ![r] = TRUE]
    /\ objStale' = [objStale EXCEPT ![r] = pc[r] /= "idle"]
    /\ lastDone' = Failed(r)
    /\ UNCHANGED << protectedEnv, nsExists, nsLabels, pc, objSpec, nsRead,
                    nsSnap, nsStale, res, events, result, writer >>

\* the operator process stops while reconciles are running and is started
\* again: the workers and their copies are gone, whatever the store holds
\* stays, and every request of the store is queued by the initial list
Restart ==
    /\ \E r \in Reqs : pc[r] /= "idle"
    /\ externals < MaxExternal
    /\ externals' = externals + 1
    /\ UNCHANGED << clusterVars, part >>
    /\ pc' = [r \in Reqs |-> "idle"]
    /\ objSpec' = [r \in Reqs |-> EmptyMap]
    /\ objStale' = [r \in Reqs |-> FALSE]
    /\ nsRead' = [r \in Reqs |-> EmptyMap]
    /\ nsSnap' = [r \in Reqs |-> EmptyMap]
    /\ nsStale' = [r \in Reqs |-> FALSE]
    /\ res' = [r \in Reqs |-> NoRes]
    /\ events' = [r \in Reqs |-> {}]
    /\ result' = [r \in Reqs |-> IF pc[r] /= "idle" THEN "none" ELSE result[r]]
    /\ pending' = [r \in Reqs |-> pending[r] \/ nlExists[r]]
    /\ lastDone' = "none"
    /\ UNCHANGED << protectedEnv, nsExists, nsLabels, nlExists, nlSpec,
                    nlFinalizer, nlDeleting, nlForeign, stApplied, stSkipped,
                    stConds, writer >>

\* somebody else writes the labels of the target
ExternalWrite(new) ==
    /\ nsExists
    /\ externals < MaxExternal
    /\ new /= nsLabels
    /\ externals' = externals + 1
    /\ UNCHANGED << clusterVars, part >>
    /\ NsStored("ext", new)
    /\ pending' = [q \in Reqs |-> pending[q] \/ q \in NsEvents(new, nlExists)]
    /\ UNCHANGED << protectedEnv, nsExists, nlExists, nlSpec, nlFinalizer,
                    nlDeleting, nlForeign, stApplied, stSkipped, stConds, pc,
                    objSpec, objStale, nsRead, nsSnap, res, events, result >>

ExternalSet(k, v) == ExternalWrite(Merge(nsLabels, k :> v))

ExternalRemove(k) == ExternalWrite(Restrict(nsLabels, (DOMAIN nsLabels) \ {k}))

\* somebody deletes the target namespace: every copy of it is stale, and the
\* delete event queues every request of the namespace
DeleteTarget ==
    /\ nsExists
    /\ externals < MaxExternal
    /\ externals' = externals + 1
    /\ UNCHANGED << clusterVars, part >>
    /\ nsExists' = FALSE
    /\ nsLabels' = EmptyMap
    /\ writer' = [k \in Keys |-> "none"]
    /\ nsStale' = [q \in Reqs |-> nsStale[q] \/ HoldsNs(q)]
    /\ lastDone' = "none"
    /\ pending' = [q \in Reqs |->
                     pending[q] \/ q \in TargetRequests(nlExists)]
    /\ UNCHANGED << protectedEnv, nlExists, nlSpec, nlFinalizer, nlDeleting,
                    nlForeign, stApplied, stSkipped, stConds, pc, objSpec,
                    objStale, nsRead, nsSnap, res, events, result >>

---------------------------------------------------------------------------
(* The engine and the good-weather environment *)

\* the state after the manager has started: the requests are in the store,
\* unreconciled, and a reconcile of each is queued
StartStore(env, labels, d1, d2, foreign) ==
    /\ protectedEnv = env
    /\ nsExists = TRUE
    /\ nsLabels = labels
    /\ nlSpec = [r \in Reqs |-> IF r = "r1" THEN d1 ELSE d2]
    /\ nlExists = [r \in Reqs |-> TRUE]
    /\ nlFinalizer = [r \in Reqs |-> FALSE]
    /\ nlDeleting = [r \in Reqs |-> FALSE]
    /\ nlForeign = [r \in Reqs |-> r \in foreign]
    /\ stApplied = [r \in Reqs |-> EmptyMap]
    /\ stSkipped = [r \in Reqs |-> EmptyMap]
    /\ stConds = [r \in Reqs |-> << >>]
    /\ pending = [r \in Reqs |-> TRUE]
    /\ pc = [r \in Reqs |-> "idle"]
    /\ objSpec = [r \in Reqs |-> EmptyMap]
    /\ objStale = [r \in Reqs |-> FALSE]
    /\ nsRead = [r \in Reqs |-> EmptyMap]
    /\ nsSnap = [r \in Reqs |-> EmptyMap]
    /\ nsStale = [r \in Reqs |-> FALSE]
    /\ res = [r \in Reqs |-> NoRes]
    /\ events = [r \in Reqs |-> {}]
    /\ result = [r \in Reqs |-> "none"]
    /\ writer = [k \in Keys |-> IF k \in DOMAIN labels THEN "ext" ELSE "none"]
    /\ lastDone = "none"
    /\ externals = 0
    /\ cluster = {}
    /\ creates = [i \in Items |-> "none"]
    /\ nsEvent = "none"
    /\ worklist = {}

\* no call of processLabels on its own
NoPartition ==
    [ desired |-> EmptyMap, protected |-> EmptyMap, labels |-> EmptyMap,
      done |-> FALSE, out |-> NoRes ]

Start(env, labels, d1, d2, foreign) ==
    /\ StartStore(env, labels, d1, d2, foreign)
    /\ part = NoPartition

Init == \E s \in Scenarios : Start(Env(s.protected), s.labels, s.r1, s.r2, {})

Engine ==
    \/ \E r \in Reqs : Get(r)
    \/ \E r \in Reqs : ensureFinalizer(r)
    \/ \E r \in Reqs : fetchNamespace(r)
    \/ \E r \in Reqs : updateNamespace(r)
    \/ \E r \in Reqs : updateStatus(r)
    \/ \E r \in Reqs : cleanupFetch(r)
    \/ \E r \in Reqs : cleanupUpdate(r)
    \/ \E r \in Reqs : removeFinalizer(r)

Next ==
    \/ Engine
    \/ \E r \in Reqs : \E d \in DesiredChoices(r) : EditSpec(r, d)
    \/ \E r \in Reqs : DeleteRequest(r)
    \/ \E kv \in ExternalSets : ExternalSet(kv[1], kv[2])
    \/ \E k \in Keys : ExternalRemove(k)

Spec == Init /\ [][Next]_vars

---------------------------------------------------------------------------
(* The engine and the environment of the failure cases: a policy source that
   is unset or unparsable, a target that disappears, finalizers of others *)

\* json.Unmarshal of a text that is no JSON object leaves the map empty
Unparsable == [kind |-> "garbage", labels |-> EmptyMap]

Unset == [kind |-> "unset", labels |-> EmptyMap]

FaultScenarios ==
    { [ env |-> Unset, labels |-> EmptyMap,
        r1 |-> ("a" :> "1"), r2 |-> ("b" :> "2"), foreign |-> {} ],
      [ env |-> Unparsable, labels |-> EmptyMap,
        r1 |-> ("a" :> "1") @@ ("p" :> "1"), r2 |-> ("b" :> "2"),
        foreign |-> {} ],
      [ env |-> Env("p" :> "x"), labels |-> ("b" :> "7"),
        r1 |-> ("a" :> "1") @@ ("p" :> "1"), r2 |-> ("b" :> "2"),
        foreign |-> {"r2"} ] }

FaultInit ==
    \E s \in FaultScenarios : Start(s.env, s.labels, s.r1, s.r2, s.foreign)

FaultNext ==
    \/ Engine
    \/ \E r \in Reqs : DeleteRequest(r)
    \/ \E r \in Reqs : StripFinalizers(r)
    \/ DeleteTarget

FaultSpec == FaultInit /\ [][FaultNext]_vars

---------------------------------------------------------------------------
(* processLabels as a function of its three maps *)

PartValues == {"", "x"}

\* the maps from some of the keys to the values
PartMaps == UNION {[ks -> PartValues] : ks \in SUBSET Keys}

PartitionInit ==
    /\ StartStore(Env("p" :> "x"), EmptyMap, ("a" :> "1"), ("b" :> "2"), {})
    /\ part \in [ desired : PartMaps, protected : PartMaps, labels : PartMaps,
                  done : {FALSE}, out : {NoRes} ]

\* the call: namespace.Labels, namespaceLabel.Spec.Labels, protectedLabels
Partition ==
    /\ ~part.done
    /\ part' = [part EXCEPT !.done = TRUE,
                            !.out = processLabels(part.labels, part.desired,
                                                  part.protected)]
    /\ UNCHANGED << engineVars, clusterVars >>

PartitionNext == Partition

PartitionSpec == PartitionInit /\ [][PartitionNext]_vars

---------------------------------------------------------------------------
(* The cluster: Namespacelabels of several namespaces, the watch of the    *)
(* namespaces and the admission webhook                                    *)

\* ValidateCreate: List the Namespacelabels of the namespace of obj and refuse
\* when there is at least one
ValidateCreate(items, obj) ==
    IF Cardinality(List(items, obj.namespace)) > 0 THEN "rejected" ELSE "admitted"

\* a client creates i and no webhook is installed, as in the controller's tests
CreateUnchecked(i) ==
    /\ i \notin cluster
    /\ cluster' = cluster \cup {i}
    /\ UNCHANGED << engineVars, part, creates, nsEvent, worklist >>

\* a client deletes i
DeleteStored(i) ==
    /\ i \in cluster
    /\ cluster' = cluster \ {i}
    /\ UNCHANGED << engineVars, part, creates, nsEvent, worklist >>

\* the watch delivers a change of namespace ns and the controller maps it
NamespaceEvent(ns) ==
    /\ nsEvent' = ns
    /\ worklist' = enqueueRequestsFromNamespace(cluster, ns)
    /\ UNCHANGED << engineVars, part, cluster, creates >>

\* the API server calls the webhook for a create request of i
Admission(i) ==
    /\ creates[i] = "none"
    /\ i \notin cluster
    /\ creates' = [creates EXCEPT ![i] = ValidateCreate(cluster, i)]
    /\ UNCHANGED << engineVars, part, cluster, nsEvent, worklist >>

\* the API server stores the object of an admitted create request
Persist(i) ==
    /\ creates[i] = "admitted"
    /\ cluster' = cluster \cup {i}
    /\ creates' = [creates EXCEPT ![i] = "none"]
    /\ UNCHANGED << engineVars, part, nsEvent, worklist >>

\* the API server returns the error of a refused create request
Refuse(i) ==
    /\ creates[i] = "rejected"
    /\ creates' = [creates EXCEPT ![i] = "none"]
    /\ UNCHANGED << engineVars, part, cluster, nsEvent, worklist >>

ClusterInit ==
    Start(Env("p" :> "x"), EmptyMap, ("a" :> "1"), ("b" :> "2"), {})

FanNext ==
    \/ \E i \in Items : CreateUnchecked(i)
    \/ \E i \in Items : DeleteStored(i)
    \/ \E ns \in Namespaces : NamespaceEvent(ns)

FanSpec == ClusterInit /\ [][FanNext]_vars

AdmitNext ==
    \/ \E i \in Items : Admission(i)
    \/ \E i \in Items : Persist(i)
    \/ \E i \in Items : Refuse(i)
    \/ \E i \in Items : DeleteStored(i)

AdmitSpec == ClusterInit /\ [][AdmitNext]_vars

\* the engine with restarts of the operator process
ReplayNext ==
    \/ Engine
    \/ \E r \in Reqs : DeleteRequest(r)
    \/ Restart

ReplaySpec == Init /\ [][ReplayNext]_vars

\* the engine with out-of-band writers of the target, the requests left
\* alone; the work queue hands every queued request to a worker and a worker
\* goes on to its next client call
RepairNext ==
    \/ \E r \in Reqs : Get(r)
    \/ \E r \in Reqs : ensureFinalizer(r)
    \/ \E r \in Reqs : fetchNamespace(r)
    \/ \E r \in Reqs : updateNamespace(r)
    \/ \E r \in Reqs : updateStatus(r)
    \/ \E kv \in ExternalSets : ExternalSet(kv[1], kv[2])
    \/ \E k \in Keys : ExternalRemove(k)

Fairness ==
    \A r \in Reqs :
        /\ WF_vars(Get(r))
        /\ WF_vars(ensureFinalizer(r))
        /\ WF_vars(fetchNamespace(r))
        /\ WF_vars(updateNamespace(r))
        /\ WF_vars(updateStatus(r))

\* two requests that desire the same key with different values, and a
\* protected key that is on the target
RepairInit ==
    Start(Env("p" :> "x"), ("p" :> "x"),
          ("a" :> "1") @@ ("p" :> "1"), ("a" :> "2") @@ ("b" :> "2"), {})

RepairSpec == RepairInit /\ [][RepairNext]_vars /\ Fairness

---------------------------------------------------------------------------
(* Desired labels with an empty value: a label value may be empty *)

EmptyValueInit ==
    Start(Env("p" :> "x"), EmptyMap, ("a" :> ""), ("a" :> "2") @@ ("b" :> "2"), {})

EmptyValueNext ==
    \/ Engine
    \/ \E r \in Reqs : DeleteRequest(r)
    \/ \E kv \in ExternalSets : ExternalSet(kv[1], kv[2])
    \/ \E k \in Keys : ExternalRemove(k)

EmptyValueSpec == EmptyValueInit /\ [][EmptyValueNext]_vars

---------------------------------------------------------------------------
(* Deletions under a fair work queue *)

\* two requests that desire the same key with different values
DeletionInit ==
    Start(Env("p" :> "x"), EmptyMap, ("a" :> "1"), ("a" :> "2") @@ ("b" :> "2"), {})

DeletionNext ==
    \/ Engine
    \/ \E r \in Reqs : DeleteRequest(r)

\* the work queue dispatches a queued request and a running reconcile goes on
DeletionFairness ==
    \A r \in Reqs :
        /\ WF_vars(Get(r))
        /\ WF_vars(ensureFinalizer(r))
        /\ WF_vars(fetchNamespace(r))
        /\ WF_vars(updateNamespace(r))
        /\ WF_vars(updateStatus(r))
        /\ WF_vars(cleanupFetch(r))
        /\ WF_vars(cleanupUpdate(r))
        /\ WF_vars(removeFinalizer(r))

DeletionSpec == DeletionInit /\ [][DeletionNext]_vars /\ DeletionFairness

---------------------------------------------------------------------------
(* Vocabulary of the properties *)

\* the keys of the protected set, whatever their values
ProtectedKeys == DOMAIN LoadProtected(protectedEnv).labels

\* r is in the store and not marked for deletion
Live(r) == nlExists[r] /\ ~nlDeleting[r]

\* no reconcile is running and none is queued
Quiescent == \A r \in Reqs : pc[r] = "idle" /\ ~pending[r]

\* the step is the namespace update of a non-deleting reconcile of r
ApplyWrite(r) == pc[r] = "update" /\ pc'[r] = "status"

\* the step is the namespace update of the deletion reconcile of r
CleanupWrite(r) == pc[r] = "cleanupUpdate" /\ pc'[r] = "removeFinalizer"

\* key k has the same presence and the same value before and after the step
SameLabel(k) ==
    /\ (k \in DOMAIN nsLabels) <=> (k \in DOMAIN nsLabels')
    /\ k \in DOMAIN nsLabels => nsLabels'[k] = nsLabels[k]

---------------------------------------------------------------------------
(* C1..C4 *)

\* C1 (protection invariant): a key of the desired labels that is a key of the
\* protected set, whatever value the protected set gives it, is never among
\* the labels a reconcile classifies to apply and is never written onto the
\* target by the engine.
C1_ProtectionInvariant ==
    \A k \in ProtectedKeys :
        /\ \A r \in Reqs : k \notin DOMAIN res[r].updated
        /\ writer[k] \notin Reqs

\* C2 (no overwrite): the namespace update of a non-deleting reconcile never
\* changes the value of a key the target already has, the empty string being
\* a value like any other.
C2_NoOverwrite ==
    [][\A r \in Reqs :
          ApplyWrite(r) =>
              \A k \in DOMAIN nsLabels :
                  k \in DOMAIN nsLabels' /\ nsLabels'[k] = nsLabels[k]]_vars

\* C3 (idempotence): when the reconcile of r succeeded and nobody else changed
\* the request, the protected set or the target since, the next reconcile of
\* r leaves the target unchanged and writes the same Status.AppliedLabels and
\* Status.SkippedLabels again.
C3_Idempotence ==
    [][\A r \in Reqs :
          lastDone = r =>
              /\ ApplyWrite(r) => nsLabels' = nsLabels
              /\ (pc[r] = "status" /\ pc'[r] = "idle") =>
                     /\ stApplied'[r] = stApplied[r]
                     /\ stSkipped'[r] = stSkipped[r]]_vars

\* C4 (cleanup completeness): once the reconcile of the deletion of r has
\* completed, so that r is gone from the store, no key that r applied to the
\* target is left on it, unless somebody else has set the key since.
C4_CleanupCompleteness ==
    \A r \in Reqs :
        (~nlExists[r] /\ pc[r] = "idle") =>
            \A k \in Keys : writer[k] /= r

---------------------------------------------------------------------------
(* C5..C7 *)

\* the two requests are live and were never edited, nobody wrote the target
\* out of band, their desired keys are disjoint, none of them is protected and
\* none of them was on the target to begin with
DisjointFresh ==
    /\ externals = 0
    /\ \A r \in Reqs : Live(r)
    /\ DOMAIN nlSpec["r1"] \cap DOMAIN nlSpec["r2"] = {}
    /\ \A r \in Reqs : \A k \in DOMAIN nlSpec[r] :
          k \notin ProtectedKeys /\ writer[k] /= "ext"

\* the target carries every desired label of every request
UnionApplied ==
    \A r \in Reqs : \A k \in DOMAIN nlSpec[r] :
        k \in DOMAIN nsLabels /\ nsLabels[k] = nlSpec[r][k]

\* C5 (conflict convergence): two requests on one target with disjoint desired
\* keys, none protected and none on the target before, reconciled in any
\* interleaving, a reconcile refused for a version conflict being queued
\* again: when all reconciles have ended the target carries the labels of
\* both requests.
C5_ConflictConvergence == (DisjointFresh /\ Quiescent) => UnionApplied

C5_Witness ==
    /\ DisjointFresh
    /\ Quiescent
    /\ UnionApplied
    /\ \A r \in Reqs : DOMAIN nlSpec[r] /= {} /\ nlFinalizer[r]

C7_CleanupFrame ==
    [][\A r \in Reqs :
          (pc[r] \in {"cleanup", "cleanupUpdate", "removeFinalizer"}
             /\ pc'[r] /= pc[r]) =>
              \A k \in Keys \ DOMAIN objSpec[r] : SameLabel(k)]_vars

\* the cleanup of r has written the target and a label of another request,
\* which r does not desire, is still there
C7_Witness ==
    \E r \in Reqs :
        /\ pc[r] = "removeFinalizer"
        /\ \E k \in DOMAIN objSpec[r] : k \notin DOMAIN nsLabels
        /\ \E k \in DOMAIN nsLabels :
              k \notin DOMAIN objSpec[r] /\ writer[k] \in Reqs \ {r}

---------------------------------------------------------------------------
(* C8..C10 *)

\* C8 (target protection across every engine action): no step of a reconcile,
\* on the apply path or on the deletion cleanup path, sets, changes or removes
\* a label of the target whose key is in the protected set.
C8_TargetProtection ==
    [][\A r \in Reqs :
          pc'[r] /= pc[r] => \A k \in ProtectedKeys : SameLabel(k)]_vars

\* C9 (single owner at quiescence): when no reconcile is running or queued,
\* every key of the target that the engine wrote is in Status.AppliedLabels
\* of exactly one request of the store, and is not protected.
C9_SingleOwner ==
    Quiescent =>
        \A k \in DOMAIN nsLabels :
            writer[k] \in Reqs =>
                /\ Cardinality({r \in Reqs :
                                  nlExists[r] /\ k \in DOMAIN stApplied[r]}) = 1
                /\ k \notin ProtectedKeys

\* C10 (no double claim): at no time is one key in Status.AppliedLabels of
\* two requests that are both live.
C10_NoDoubleClaim ==
    \A q, r \in Reqs :
        (q /= r /\ Live(q) /\ Live(r)) =>
            DOMAIN stApplied[q] \cap DOMAIN stApplied[r] = {}

---------------------------------------------------------------------------
(* C11, C12 *)

\* the target the worker of r read held none of the desired keys of r
Fresh(r) == DOMAIN objSpec[r] \cap DOMAIN nsRead[r] = {}

\* the step is the status write of r, and the store accepts it
StatusStored(r) ==
    /\ pc[r] = "status" /\ pc'[r] = "idle" /\ result'[r] = "ok"
    /\ nlExists[r] /\ ~objStale[r]

\* the desired pairs whose key is not in the protected set, and the others
NonProtected(d) == Restrict(d, (DOMAIN d) \ ProtectedKeys)

ProtectedPart(d) == Restrict(d, ProtectedKeys)

\* C11 (first reconcile of a fresh request): when the target holds none of
\* the desired keys of r, a successful reconcile of r leaves the target with
\* its previous labels plus exactly the non-protected desired pairs of r,
\* Status.AppliedLabels with exactly those pairs and Status.SkippedLabels with
\* exactly the protected desired pairs of r.
C11_FirstReconcile ==
    [][\A r \in Reqs :
          Fresh(r) =>
              /\ ApplyWrite(r) =>
                     nsLabels' = Merge(nsLabels, NonProtected(objSpec[r]))
              /\ StatusStored(r) =>
                     /\ stApplied'[r] = NonProtected(objSpec[r])
                     /\ stSkipped'[r] = ProtectedPart(objSpec[r])]_vars

\* C12 (status report): after every successful non-deleting reconcile of r,
\* Status.AppliedLabels is the map of the labels that pass applied and
\* Status.SkippedLabels is the union of the protected and the duplicate
\* labels that pass skipped.
C12_StatusReport ==
    [][\A r \in Reqs :
          StatusStored(r) =>
              /\ stApplied'[r] = res[r].updated
              /\ stSkipped'[r] = Merge(res[r].skipped, res[r].duplicate)]_vars

---------------------------------------------------------------------------
(* C13, C14 *)

\* r has a label on the target that it wrote
HasApplied(r) == \E k \in Keys : writer[k] = r

\* C13 (guard before apply): the namespace update that applies labels for r
\* happens only when the finalizer of r is in the store; when storing the
\* finalizer fails, the reconcile returns an error and does not write the
\* target; so a live request that has applied a label carries the finalizer.
C13_GuardBeforeApply ==
    /\ [](\A r \in Reqs : (Live(r) /\ HasApplied(r)) => nlFinalizer[r])
    /\ [][\A r \in Reqs :
             /\ ApplyWrite(r) => nlFinalizer[r]
             /\ (pc[r] = "ensure" /\ pc'[r] = "idle") =>
                    /\ result'[r] = "error"
                    /\ ~nlFinalizer'[r]
                    /\ UNCHANGED << nsLabels, writer >>]_vars

\* one request has applied a label and carries the finalizer, the reconcile
\* of the other failed to store the finalizer and wrote nothing
C13_Witness ==
    \E q, r \in Reqs :
        /\ Live(r) /\ HasApplied(r) /\ nlFinalizer[r]
        /\ nlExists[q] /\ ~nlFinalizer[q] /\ pc[q] = "idle"
        /\ result[q] = "error" /\ ~HasApplied(q)

\* C14 (guard release ordering): the deletion reconcile of r clears the
\* finalizer, which lets the store remove r, only after it has stored the
\* target without the desired keys of r; when reading or storing the target
\* fails, the finalizer and r stay in the store as they are, the reconcile
\* returns an error and r is queued again.
C14_GuardReleaseOrder ==
    [][\A r \in Reqs :
          /\ (pc'[r] /= pc[r] /\ nlFinalizer[r] /\ ~nlFinalizer'[r]) =>
                 pc[r] = "removeFinalizer"
          /\ (pc'[r] = "removeFinalizer" /\ pc[r] /= "removeFinalizer") =>
                 /\ pc[r] = "cleanupUpdate"
                 /\ nsExists'
                 /\ nsLabels' = Cleanup(nsLabels, objSpec[r])
          /\ (pc[r] \in {"cleanup", "cleanupUpdate"} /\ pc'[r] = "idle") =>
                 /\ result'[r] = "error"
                 /\ pending'[r]
                 /\ nlFinalizer'[r] = nlFinalizer[r]
                 /\ nlExists'[r] = nlExists[r]
                 /\ UNCHANGED << nsLabels, writer >>]_vars

\* the cleanup of q has stored the target and is about to clear the
\* finalizer; the cleanup of r has read the target, which has gone since, and
\* the finalizer of r is still in the store
C14_Witness ==
    \E q, r \in Reqs :
        /\ pc[q] = "removeFinalizer" /\ nlFinalizer[q] /\ nlExists[q]
        /\ pc[r] = "cleanupUpdate" /\ nlFinalizer[r] /\ nlExists[r]
        /\ ~nsExists

---------------------------------------------------------------------------
(* C15..C17 *)

\* the policy source is set and is the text of a JSON object
SourceUsable == protectedEnv.kind = "json"

\* C15 (the loader fails closed): when the policy source is absent or is not
\* parsable as a JSON object, the reconcile that loads it stops there with an
\* error and never goes on to write the target.
C15_LoaderFailsClosed ==
    [][\A r \in Reqs :
          ~SourceUsable =>
              /\ (pc[r] = "fetch" /\ pc'[r] /= "fetch") =>
                     pc'[r] = "idle" /\ result'[r] = "error"
              /\ ~ApplyWrite(r)]_vars

\* the status of r in the store is the same before and after the step
SameStatus(r) ==
    /\ stApplied'[r] = stApplied[r]
    /\ stSkipped'[r] = stSkipped[r]
    /\ stConds'[r] = stConds[r]

\* the reconcile of r ends with an error, and neither the target nor the
\* status of r has changed
AbortsClean(r) ==
    /\ pc'[r] = "idle"
    /\ result'[r] = "error"
    /\ SameStatus(r)
    /\ UNCHANGED << nsExists, nsLabels, writer >>

C17_AbsentTargetCleanup ==
    [][\A r \in Reqs :
          ( /\ pc[r] = "cleanup" /\ pc'[r] /= "cleanup"
            /\ nlFinalizer[r] /\ ~nsExists ) =>
              pc'[r] = "removeFinalizer" /\ result'[r] /= "error"]_vars

---------------------------------------------------------------------------
(* C18..C20: the no-op paths of Reconcile *)

\* the step with which the work queue hands r to Reconcile
Dequeued(r) == pending[r] /\ ~pending'[r]

\* the store (target and requests) is the same before and after the step
StoreUnchanged ==
    UNCHANGED << nsExists, nsLabels, writer, nlExists, nlSpec, nlFinalizer,
                 nlDeleting, nlForeign, stApplied, stSkipped, stConds >>

\* C18 (deletion without guard): the reconcile of a request that is marked
\* for deletion and does not carry the guard token returns success at once,
\* without reading or writing the target and without writing the request.
C18_DeletionWithoutGuard ==
    [][\A r \in Reqs :
          (Dequeued(r) /\ nlExists[r] /\ nlDeleting[r] /\ ~nlFinalizer[r]) =>
              pc'[r] = "idle" /\ result'[r] = "ok"]_vars

\* C19 (request not in store): the reconcile of a request that the store does
\* not hold returns success and changes nothing in the store.
C19_AbsentRequest ==
    [][\A r \in Reqs :
          (Dequeued(r) /\ ~nlExists[r]) =>
              pc'[r] = "idle" /\ result'[r] = "ok" /\ StoreUnchanged]_vars

\* the reconcile of a request that is gone has returned success
C19_Witness ==
    \E r \in Reqs :
        ~nlExists[r] /\ ~pending[r] /\ pc[r] = "idle" /\ result[r] = "ok"

\* C20 (status write): when the request is gone at the status write, the
\* NotFound is a success and nothing is stored; every other failure of the
\* status write (a conflict) is returned as an error and nothing is stored.
C20_StatusWriteNotFound ==
    [][\A r \in Reqs :
          (pc[r] = "status" /\ pc'[r] /= "status") =>
              /\ ~nlExists[r] => result'[r] = "ok" /\ StoreUnchanged
              /\ (nlExists[r] /\ objStale[r]) =>
                     result'[r] = "error" /\ StoreUnchanged]_vars

\* r has stored its labels on the target and stands at the status write,
\* and the request is gone from the store
C20_Witness ==
    \E r \in Reqs :
        /\ pc[r] = "status" /\ ~nlExists[r]
        /\ \E k \in Keys : writer[k] = r

---------------------------------------------------------------------------
(* C21..C22: the conditions of the status *)

ConditionTypes == {"LabelsSkipped", "DuplicateLabels", "LabelsApplied"}

TypesOf(conds) == {conds[i].type : i \in 1..Len(conds)}

\* no two records of conds have the same type
UniqueTypes(conds) ==
    \A i, j \in 1..Len(conds) : conds[i].type = conds[j].type => i = j

\* the status of the record of that type ("" when there is none)
StatusOf(conds, type) ==
    IF \E i \in 1..Len(conds) : conds[i].type = type
    THEN (CHOOSE c \in {conds[i] : i \in 1..Len(conds)} : c.type = type).status
    ELSE ""

\* C21 (condition uniqueness): the stored conditions of a request never hold
\* two records of one type, however often the request is reconciled, and
\* every status write that the store accepts leaves exactly the three types
\* LabelsSkipped, DuplicateLabels and LabelsApplied.
C21_ConditionUniqueness ==
    /\ [](\A r \in Reqs : UniqueTypes(stConds[r]))
    /\ [][\A r \in Reqs :
             StatusStored(r) =>
                 /\ TypesOf(stConds'[r]) = ConditionTypes
                 /\ Len(stConds'[r]) = 3]_vars

\* r has written its status twice: with nobody interfering, the pass in which
\* r applied a label stored a non-empty status.applied, and a later pass has
\* replaced it; the conditions still are three
C21_Witness ==
    \E r \in Reqs :
        /\ externals = 0 /\ Live(r)
        /\ \E k \in Keys : writer[k] = r
        /\ DOMAIN stApplied[r] = {}
        /\ Len(stConds[r]) = 3

\* the desired keys of the worker's copy of r that this pass skips as
\* protected, and those it skips as duplicates of what it read on the target
SkippedAsProtected(r) ==
    {k \in DOMAIN objSpec[r] :
        IsProtectedCase(LoadProtected(protectedEnv).labels, k)}

SkippedAsDuplicate(r) ==
    {k \in (DOMAIN objSpec[r]) \ SkippedAsProtected(r) :
        IsDuplicateCase(nsRead[r], k)}

\* C22 (condition values): every status write of a non-deleting reconcile
\* that the store accepts leaves LabelsSkipped True exactly when the pass
\* skipped a desired key as protected, DuplicateLabels True exactly when it
\* skipped a desired key as duplicate, and LabelsApplied True.
C22_ConditionValues ==
    [][\A r \in Reqs :
          StatusStored(r) =>
              /\ StatusOf(stConds'[r], "LabelsSkipped")
                     = Bool(SkippedAsProtected(r) /= {})
              /\ StatusOf(stConds'[r], "DuplicateLabels")
                     = Bool(SkippedAsDuplicate(r) /= {})
              /\ StatusOf(stConds'[r], "LabelsApplied") = "True"]_vars

\* a reconcile that skipped one key as protected and no key as duplicate has
\* stored its status
C22_Witness ==
    \E r \in Reqs :
        /\ Live(r) /\ pc[r] = "idle" /\ result[r] = "ok"
        /\ StatusOf(stConds[r], "LabelsSkipped") = "True"
        /\ StatusOf(stConds[r], "DuplicateLabels") = "False"
        /\ StatusOf(stConds[r], "LabelsApplied") = "True"

---------------------------------------------------------------------------
(* C23..C24: the events of a reconcile *)

\* the step in which the reconcile of r runs processLabels
Classified(r) == pc[r] = "fetch" /\ pc'[r] = "update"

EventsFor(evs, k) == {e \in evs : e.key = k}

\* the one skip event the reconcile of r owes for the skipped key k
SkipEvent(r, k) ==
    Event("Warning",
          IF k \in ProtectedKeys THEN "ProtectedLabelSkipped"
                                 ELSE "DuplicateLabelSkipped",
          k, objSpec[r][k])

\* C23 (skip events): a non-deleting reconcile emits, for every desired key
\* it skips, exactly one event that carries the desired pair and is tagged
\* ProtectedLabelSkipped when the key is protected and DuplicateLabelSkipped
\* otherwise (the key is on the target); it emits no skip event for a key it
\* applies.
C23_SkipEvents ==
    [][\A r \in Reqs :
          Classified(r) =>
              \A k \in DOMAIN objSpec[r] :
                  IF k \in DOMAIN res'[r].updated
                  THEN EventsFor(events'[r], k) = {}
                  ELSE EventsFor(events'[r], k) = {SkipEvent(r, k)}]_vars

\* C24 (apply event): a successful reconcile that applied a non-empty set of
\* labels has emitted a Normal event tagged LabelsApplied.
C24_ApplyEvent ==
    [][\A r \in Reqs :
          (StatusStored(r) /\ DOMAIN res[r].updated /= {}) =>
              \E e \in events[r] :
                  e.type = "Normal" /\ e.reason = "LabelsApplied"]_vars

---------------------------------------------------------------------------
(* C28..C29: a change of the desired labels of a request *)

\* C28 (desired-value update propagates): when a reconcile of r completes,
\* every desired key whose label on the target was set by r has the value r
\* desires now.
C28_ValueUpdatePropagates ==
    [][\A r \in Reqs :
          StatusStored(r) =>
              \A k \in DOMAIN objSpec[r] :
                  writer[k] = r => Lookup(nsLabels, k) = objSpec[r][k]]_vars

\* C29 (desired-key removal propagates): when a reconcile of r completes, no
\* label that r set and no longer desires is left on the target.
C29_KeyRemovalPropagates ==
    [][\A r \in Reqs :
          StatusStored(r) =>
              \A k \in Keys :
                  writer[k] = r => k \in DOMAIN objSpec[r]]_vars

---------------------------------------------------------------------------
(* C27: replay of a reconcile that did not reach its status write *)

\* the desired pairs of the worker's copy of r that are on the target and
\* were put there by r
OwnOnTarget(r) ==
    {k \in DOMAIN objSpec[r] :
        writer[k] = r /\ Lookup(nsLabels, k) = objSpec[r][k]}

\* C27 (replay convergence): the first status write of r that the store
\* accepts reports, as applied, every desired pair that r has put on the
\* target, whether this pass put it there (an uninterrupted reconcile) or an
\* earlier pass of r that was abandoned or failed before its status write.
C27_ReplayConvergence ==
    [][\A r \in Reqs :
          (StatusStored(r) /\ stConds[r] = << >>) =>
              \A k \in OwnOnTarget(r) :
                  /\ k \in DOMAIN stApplied'[r]
                  /\ stApplied'[r][k] = objSpec[r][k]]_vars

---------------------------------------------------------------------------
(* C26: repair of the target after an out-of-band change *)

\* some live request desires key k
Wanted(k) == \E r \in Reqs : Live(r) /\ k \in DOMAIN nlSpec[r]

\* key k is on the target with a value that some live request desires
Repaired(k) ==
    /\ k \in DOMAIN nsLabels
    /\ \E r \in Reqs :
           Live(r) /\ k \in DOMAIN nlSpec[r] /\ nlSpec[r][k] = nsLabels[k]

\* C26 (out-of-band repair): whenever a key that a live request desires and
\* that is not protected is missing on the target, in particular after an
\* external actor removed it, the key is eventually on the target again with
\* a value some live request desires, unless no live request desires it any
\* more or an external actor has set the key itself in the meantime.
C26_OutOfBandRepair ==
    \A k \in Keys :
        (k \notin DOMAIN nsLabels /\ Wanted(k) /\ k \notin ProtectedKeys)
            ~> \/ Repaired(k)
               \/ ~Wanted(k)
               \/ (k \in DOMAIN nsLabels /\ writer[k] = "ext")

\* a label that r applied and reported has been removed from the target by
\* an external actor
C26_Witness ==
    \E r \in Reqs : \E k \in Keys :
        /\ externals = 1
        /\ Live(r)
        /\ k \in DOMAIN stApplied[r] /\ k \in DOMAIN nlSpec[r]
        /\ k \notin DOMAIN nsLabels

---------------------------------------------------------------------------
(* C25, C30: the watch of the namespaces and the admission webhook *)

C30_OnePerNamespace ==
    /\ [][\A i \in Items :
             (creates[i] = "none" /\ creates'[i] /= "none") =>
                 (creates'[i] = "rejected" <=> List(cluster, i.namespace) /= {})]_vars
    /\ [](\A ns \in Namespaces : Cardinality(List(cluster, ns)) <= 1)

---------------------------------------------------------------------------
(* C31..C32: the partition of the desired labels *)

\* the class the reference rule gives the desired key k: by the presence of
\* the key in the protected map first, in the labels of the target second
RuleClass(k) ==
    IF k \in DOMAIN part.protected THEN "skipped"
    ELSE IF k \in DOMAIN part.labels THEN "duplicate"
    ELSE "updated"

\* the class processLabels gave the desired key k
CodeClass(k) ==
    IF k \in DOMAIN part.out.skipped THEN "skipped"
    ELSE IF k \in DOMAIN part.out.duplicate THEN "duplicate"
    ELSE IF k \in DOMAIN part.out.updated THEN "updated"
    ELSE "none"

\* C31 (partition rule): for every desired, protected and target map, every
\* desired key is classified by the reference rule: protected when it is a
\* key of the protected map whatever its value, else duplicate when it is a
\* key of the target's labels whatever its value, else to apply.
C31_PartitionRule ==
    part.done => \A k \in DOMAIN part.desired : CodeClass(k) = RuleClass(k)

\* C32 (partition is a partition): the three maps processLabels returns have
\* pairwise disjoint key sets, the union of the key sets is the key set of
\* the desired labels, and every key is mapped to its desired value.
C32_PartitionIsPartition ==
    part.done =>
        LET u == part.out.updated
            s == part.out.skipped
            d == part.out.duplicate
        IN  /\ DOMAIN u \cap DOMAIN s = {}
            /\ DOMAIN u \cap DOMAIN d = {}
            /\ DOMAIN s \cap DOMAIN d = {}
            /\ DOMAIN u \cup DOMAIN s \cup DOMAIN d = DOMAIN part.desired
            /\ \A k \in DOMAIN u : u[k] = part.desired[k]
            /\ \A k \in DOMAIN s : s[k] = part.desired[k]
            /\ \A k \in DOMAIN d : d[k] = part.desired[k]

\* a call that put a key in each of the three maps, one of the skipped keys
\* being on the target as well
C32_Witness ==
    /\ part.done
    /\ DOMAIN part.out.updated /= {}
    /\ DOMAIN part.out.duplicate /= {}
    /\ \E k \in DOMAIN part.out.skipped : IsDuplicateCase(part.labels, k)

---------------------------------------------------------------------------
(* C33..C34: writes of the target that race *)

\* request r is about to persist a copy of the target that another write has
\* overtaken: r.Update will answer with a conflict
ConflictAhead(r) == pc[r] = "update" /\ nsExists /\ nsStale[r]

\* C33 (applier conflict retry): when persisting the target fails with a
\* conflict, the reconcile does not return; it reads the target again, merges
\* and persists again, and an error is returned only after several attempts.
C33_ConflictRetry ==
    [][\A r \in Reqs : ConflictAhead(r) => ~(pc'[r] = "idle" /\ result'[r] = "error")]_vars

\* key k is on the target with the value another request than r put there
HeldByOther(r, k) == writer[k] \in Reqs \ {r}

\* C34 (same-key race): a request never overwrites a label another request
\* put on the target first: its write leaves that label as it is, a reconcile
\* that reads the target afterwards classes the key as a duplicate, and the
\* status it stores reports the key as a duplicate and not as applied.
C34_SameKeyRace ==
    [][\A r \in Reqs :
        /\ ApplyWrite(r) =>
              \A k \in Keys : HeldByOther(r, k) =>
                  /\ k \in DOMAIN nsLabels'
                  /\ nsLabels'[k] = nsLabels[k]
                  /\ writer'[k] = writer[k]
        /\ Classified(r) =>
              \A k \in (DOMAIN objSpec[r]) \ ProtectedKeys :
                  HeldByOther(r, k) => k \in DOMAIN res'[r].duplicate
        /\ StatusStored(r) =>
              \A k \in DOMAIN res[r].duplicate :
                  /\ k \notin DOMAIN stApplied'[r]
                  /\ StatusOf(stConds'[r], "DuplicateLabels") = "True"]_vars

---------------------------------------------------------------------------
(* C35..C37: the deletion of a request *)

\* request r is in handleDeletion
InCleanup(r) == pc[r] \in {"cleanup", "cleanupUpdate", "removeFinalizer"}

\* the step is a step of the reconcile of r
StepOf(r) == pc'[r] /= pc[r]

\* the state of the guard of r: 0 Unregistered, 1 Registered, 2 CleaningUp,
\* 3 Released
GuardState(r) ==
    IF ~nlExists[r] THEN 3
    ELSE IF nlDeleting[r] THEN (IF nlFinalizer[r] THEN 2 ELSE 3)
    ELSE IF nlFinalizer[r] THEN 1 ELSE 0

\* the labels of the target are only removed by the step
OnlyRemoved ==
    /\ DOMAIN nsLabels' \subseteq DOMAIN nsLabels
    /\ \A k \in DOMAIN nsLabels' : nsLabels'[k] = nsLabels[k]

\* C35 (deletion path is terminal): a reconcile that reads a request with a
\* deletion timestamp goes to handleDeletion only; its steps never add the
\* finalizer, never add or change a label of the target and never write the
\* status of the request; and the guard of a request never goes back in the
\* order Unregistered, Registered, CleaningUp, Released.
C35_DeletionTerminal ==
    [][\A r \in Reqs :
        /\ (Dequeued(r) /\ nlExists[r] /\ nlDeleting[r]) => pc'[r] = "cleanup"
        /\ (InCleanup(r) /\ StepOf(r)) =>
              /\ pc'[r] \in {"cleanupUpdate", "removeFinalizer", "idle"}
              /\ nlFinalizer'[r] => nlFinalizer[r]
              /\ OnlyRemoved
              /\ nlExists'[r] => /\ stApplied'[r] = stApplied[r]
                                 /\ stSkipped'[r] = stSkipped[r]
                                 /\ stConds'[r] = stConds[r]
        /\ LET before == GuardState(r)
           IN  GuardState(r)' >= before]_vars

\* the cleanup of a deleting request has removed labels from the target and
\* the finalizer is about to be removed
C35_Witness ==
    \E r \in Reqs :
        /\ pc[r] = "removeFinalizer"
        /\ nlExists[r] /\ nlDeleting[r] /\ nlFinalizer[r]
        /\ nsSnap[r] /= nsRead[r]
        /\ nsLabels = nsSnap[r]

\* C36 (deletion eventually completes): a request that has the finalizer and
\* a deletion timestamp, on a target that exists, is eventually absent from
\* the store, its finalizer cleared, when the work queue and the client calls
\* are weakly fair.
C36_DeletionCompletes ==
    \A r \in Reqs :
        (nlExists[r] /\ nlDeleting[r] /\ nlFinalizer[r] /\ nsExists)
            ~> (~nlExists[r] /\ ~nlFinalizer[r])

\* the reconcile that removed the finalizer has returned and the store has
\* removed the request
C36_Witness ==
    \E r \in Reqs :
        /\ ~nlExists[r] /\ ~nlFinalizer[r]
        /\ pc[r] = "idle" /\ result[r] = "ok" /\ pending[r]

\* C37 (key hand-over after deletion): when a request that put key k on the
\* target is being deleted and another live request desires the unprotected
\* key k, then eventually k is on the target with the value the other request
\* desires and is in the applied labels of its status, unless the other
\* request is deleted as well.
C37_KeyHandOver ==
    \A r1 \in Reqs : \A r2 \in Reqs \ {r1} : \A k \in Keys :
        (/\ nlExists[r1] /\ nlDeleting[r1] /\ nlFinalizer[r1]
         /\ writer[k] = r1
         /\ Live(r2)
         /\ k \in (DOMAIN nlSpec[r2]) \ ProtectedKeys)
            ~> \/ ~Live(r2)
               \/ /\ k \in (DOMAIN nsLabels) \cap (DOMAIN nlSpec[r2])
                  /\ nsLabels[k] = nlSpec[r2][k]
                  /\ k \in DOMAIN stApplied[r2]

\* the key is handed over: the cleanup of the first request found the key
\* with its own value and removed it, and the key is on the target with the
\* value of the second request, whose status reports it as applied
C37_Witness ==
    \E r1 \in Reqs : \E r2 \in Reqs \ {r1} : \E k \in Keys :
        /\ pc[r1] = "removeFinalizer"
        /\ k \in (DOMAIN nsRead[r1]) \cap (DOMAIN objSpec[r1])
        /\ nsRead[r1][k] = objSpec[r1][k]
        /\ Live(r2)
        /\ k \in DOMAIN nlSpec[r2]
        /\ nlSpec[r2][k] /= objSpec[r1][k]
        /\ writer[k] = r2
        /\ nsLabels[k] = nlSpec[r2][k]
        /\ k \in DOMAIN stApplied[r2]

---------------------------------------------------------------------------
(* C38..C39: the status and the target at rest *)

\* every pair of status.appliedLabels of request r is on the target
AppliedOnTarget(r) ==
    \A k \in DOMAIN stApplied[r] :
        k \in DOMAIN nsLabels /\ nsLabels[k] = stApplied[r][k]

\* C38 (reported-applied labels are real): in every state with no reconcile
\* queued or running, every key/value pair of status.appliedLabels of a live
\* request is on the target with that value.
C38_AppliedAreReal ==
    Quiescent => \A r \in Reqs : Live(r) => AppliedOnTarget(r)

\* at rest, a live request reports a label as applied
C38_Witness ==
    /\ Quiescent
    /\ \E r \in Reqs : Live(r) /\ DOMAIN stApplied[r] /= {}

\* the step is a write of the target by the reconcile of r
TargetWrite(r) == ApplyWrite(r) \/ CleanupWrite(r)

\* no reconcile is queued or running, nothing but the engine has acted, and
\* request r1 is gone while request r2 is live
RaceOver(r1, r2) ==
    /\ Quiescent
    /\ externals = 0
    /\ ~nlExists[r1]
    /\ Live(r2)

\* C39 (the cleanup/apply race loses no update): a write of the target by a
\* reconcile never lands when its copy of the target is stale, and it changes
\* no label outside the desired keys of its own request; and when the
\* cleanup of a deleted request and the reconciles of the other request have
\* all ended, the target carries every unprotected desired label of the live
\* request and no label that the deleted request put there.
C39_RaceLosesNoUpdate ==
    /\ [](\A r1 \in Reqs : \A r2 \in Reqs \ {r1} :
            RaceOver(r1, r2) =>
                /\ \A k \in Keys : writer[k] /= r1
                /\ \A k \in (DOMAIN nlSpec[r2]) \ ProtectedKeys :
                       k \in DOMAIN nsLabels /\ nsLabels[k] = nlSpec[r2][k])
    /\ [][\A r \in Reqs :
            TargetWrite(r) =>
                /\ ~nsStale[r]
                /\ \A k \in Keys \ DOMAIN objSpec[r] : SameLabel(k)]_vars

\* the race: the cleanup of a deleting request is about to persist a copy of
\* the target that lacks a label the other request, whose desired keys are
\* disjoint from its own, has put on the target since
C39_Witness ==
    \E r1 \in Reqs : \E r2 \in Reqs \ {r1} : \E k \in Keys :
        /\ pc[r1] = "cleanupUpdate"
        /\ nsStale[r1]
        /\ Live(r2)
        /\ DOMAIN objSpec[r1] \cap DOMAIN nlSpec[r2] = {}
        /\ writer[k] = r2
        /\ k \notin DOMAIN nsRead[r1]

===========================================================================
